---------------------------- MODULE Spec2Model ----------------------------
(***************************************************************************)
(* Model of the asset capture application (src/app.py): the filename /     *)
(* asset-key derivation and the reconciliation of the three stores it      *)
(* keeps: the upload directory, the assets table and the QR_codes table.   *)
(*                                                                         *)
(* Strings are sequences of one-character strings, so that the regular     *)
(* expressions, prefix tests and the SQL LIKE of the source are computed   *)
(* character by character.                                                 *)
(***************************************************************************)
EXTENDS Integers, Sequences, FiniteSets, TLC

(***************************************************************************)
(* Characters                                                              *)
(***************************************************************************)
UpperSeq == <<"A","B","C","D","E","F","G","H","I","J","K","L","M",
              "N","O","P","Q","R","S","T","U","V","W","X","Y","Z">>
LowerSeq == <<"a","b","c","d","e","f","g","h","i","j","k","l","m",
              "n","o","p","q","r","s","t","u","v","w","x","y","z">>
Upper == {UpperSeq[i] : i \in DOMAIN UpperSeq}
Lower == {LowerSeq[i] : i \in DOMAIN LowerSeq}
Letters == Upper \cup Lower
Digits == {"0","1","2","3","4","5","6","7","8","9"}
Whitespace == {" ", "\t", "\n"}
\* the class [<>:"/\\|?*] of sanitize_component
IllegalChars == {"<", ">", ":", "\"", "/", "\\", "|", "?", "*"}
\* the class [A-Za-z0-9._-] of sanitize_component
KeptChars == Letters \cup Digits \cup {".", "_", "-"}

\* str.lower() and str.upper() on one ASCII character
LowerChar(c) ==
    IF c \in Upper THEN LowerSeq[CHOOSE i \in DOMAIN UpperSeq : UpperSeq[i] = c] ELSE c
UpperChar(c) ==
    IF c \in Lower THEN UpperSeq[CHOOSE i \in DOMAIN LowerSeq : LowerSeq[i] = c] ELSE c
LowerStr(s) == [i \in DOMAIN s |-> LowerChar(s[i])]
UpperStr(s) == [i \in DOMAIN s |-> UpperChar(s[i])]

(***************************************************************************)
(* String helpers standing for the Python built-ins the source uses        *)
(***************************************************************************)
\* str.startswith
StartsWith(s, p) == Len(p) <= Len(s) /\ SubSeq(s, 1, Len(p)) = p
\* str.endswith
EndsWith(s, p) == Len(p) <= Len(s) /\ SubSeq(s, Len(s) - Len(p) + 1, Len(s)) = p
\* s[:n]; a negative n counts from the end
Take(s, n) ==
    SubSeq(s, 1, IF n < 0 THEN Len(s) + n ELSE IF n < Len(s) THEN n ELSE Len(s))
Drop(s, n) == SubSeq(s, n + 1, Len(s))

\* number of leading / trailing characters of s that lie in cs
RECURSIVE LeadIn(_, _)
LeadIn(s, cs) == IF s # <<>> /\ Head(s) \in cs THEN 1 + LeadIn(Tail(s), cs) ELSE 0
RECURSIVE TrailIn(_, _)
TrailIn(s, cs) ==
    IF s # <<>> /\ s[Len(s)] \in cs THEN 1 + TrailIn(SubSeq(s, 1, Len(s) - 1), cs) ELSE 0

\* str.strip(chars)
StripChars(s, cs) ==
    LET a == LeadIn(s, cs)
    IN  IF a = Len(s) THEN <<>> ELSE SubSeq(s, a + 1, Len(s) - TrailIn(s, cs))
\* str.strip()
Strip(s) == StripChars(s, Whitespace)

\* re.sub(r'[cs]+', repl, s): every maximal run of characters of cs becomes repl
RECURSIVE SubRuns(_, _, _)
SubRuns(s, cs, repl) ==
    IF s = <<>> THEN <<>>
    ELSE IF Head(s) \in cs
         THEN repl \o SubRuns(Drop(s, LeadIn(s, cs)), cs, repl)
         ELSE <<Head(s)>> \o SubRuns(Tail(s), cs, repl)

\* re.search(r'(\d{6,})', s): the leftmost run of six or more digits, <<>> if none
RECURSIVE DigitRun(_)
DigitRun(s) ==
    IF s = <<>> THEN <<>>
    ELSE LET n == LeadIn(s, Digits)
         IN  IF n >= 6 THEN Take(s, n)
             ELSE DigitRun(Drop(s, IF n = 0 THEN 1 ELSE n))

\* re.sub(r'^[a-zA-Z]+:', '', s)
DropScheme(s) ==
    LET n == LeadIn(s, Letters)
    IN  IF n >= 1 /\ n < Len(s) /\ s[n + 1] = ":" THEN Drop(s, n + 1) ELSE s

\* hashlib.sha1(b'fallback').hexdigest()[:8]
FallbackToken == <<"5","d","2","8","8","a","d","2">>

\* characters outside [A-Za-z0-9._-] that occur in s
NotKept(s) == {s[i] : i \in DOMAIN s} \ KeptChars

\* a sanitizer without the fallback token
SanitizeNoFallback(raw, prefer_digits, maxlen) ==
    LET s0 == Strip(raw)
        m  == IF prefer_digits THEN DigitRun(s0) ELSE <<>>
        s1 == IF m # <<>> THEN m ELSE s0
        s2 == StripChars(DropScheme(s1), {"/"})
        s3 == SubRuns(s2, IllegalChars, <<"_">>)
        s4 == SubRuns(s3, Whitespace, <<"_">>)
        s5 == StripChars(SubRuns(s4, NotKept(s4), <<>>), {".", "_", "-"})
    IN  Take(s5, maxlen)

SanitizeComponent(raw, prefer_digits, maxlen) ==
    LET s0 == Strip(raw)
        m  == IF prefer_digits THEN DigitRun(s0) ELSE <<>>
        s1 == IF m # <<>> THEN m ELSE s0
        s2 == StripChars(DropScheme(s1), {"/"})
        s3 == SubRuns(s2, IllegalChars, <<"_">>)
        s4 == SubRuns(s3, Whitespace, <<"_">>)
        s5 == StripChars(SubRuns(s4, NotKept(s4), <<>>), {".", "_", "-"})
        s6 == IF s5 = <<>> THEN FallbackToken ELSE s5
    IN  Take(s6, maxlen)

DefaultMaxLen == 80


\* _safe_str on a form value that is a string
SafeStr(x) == Strip(x)

MapAssetTypeToAbbrev(ty) ==
    LET t == LowerStr(Strip(ty))
    IN  IF StartsWith(t, <<"m","e","c","h">>) THEN <<"M","E">>
        ELSE IF StartsWith(t, <<"e","l","e","c">>) THEN <<"E","L">>
        ELSE IF StartsWith(t, <<"b","a","c","k">>) THEN <<"B","F">>
        ELSE IF t = <<>> THEN <<"A","S">>
        ELSE UpperStr(Take(t, 2))


\* the asset type the routes fall back to: request.form.get("asset_type") or "Mechanical"
DefaultAssetType == <<"M","e","c","h","a","n","i","c","a","l">>

\* ALLOWED_EXTS
AllowedExts == { <<".","j","p","g">>, <<".","j","p","e","g">>, <<".","p","n","g">>,
                 <<".","w","e","b","p">>, <<".","b","m","p">>, <<".","g","i","f">>,
                 <<".","t","i","f">>, <<".","t","i","f","f">> }
JpgExt == <<".","j","p","g">>

\* index of the last occurrence of c in s, 0 if there is none (str.rfind, 1-based)
RECURSIVE LastIndexOf(_, _)
LastIndexOf(s, c) ==
    IF s = <<>> THEN 0
    ELSE IF s[Len(s)] = c THEN Len(s)
    ELSE LastIndexOf(SubSeq(s, 1, Len(s) - 1), c)

\* os.path.basename (POSIX separator)
Basename(s) == Drop(s, LastIndexOf(s, "/"))

\* os.path.splitext: split at the last dot of the last path component, unless
\* that component has only leading dots before it; <<root, ext>>
Splitext(s) ==
    LET sep == LastIndexOf(s, "/")
        dot == LastIndexOf(s, ".")
    IN  IF dot > sep /\ \E i \in (sep + 1)..(dot - 1) : s[i] # "."
        THEN <<SubSeq(s, 1, dot - 1), Drop(s, dot - 1)>>
        ELSE <<s, <<>> >>

\* werkzeug.utils.secure_filename: separators become spaces, whitespace runs
\* are joined by "_", characters outside [A-Za-z0-9_.-] are dropped and
\* leading/trailing "._" stripped
SecureFilename(name) ==
    LET a == [i \in DOMAIN name |-> IF name[i] = "/" THEN " " ELSE name[i]]
        b == SubRuns(Strip(a), Whitespace, <<"_">>)
        c == SubRuns(b, NotKept(b), <<>>)
    IN  StripChars(c, {".", "_"})

\* extension chosen for an uploaded file (submit, the lines after secure_filename)
UploadExt(filename) ==
    LET e0 == Splitext(SecureFilename(filename))[2]
        e1 == LowerStr(IF e0 = <<>> THEN JpgExt ELSE e0)
    IN  IF e1 \in AllowedExts THEN e1 ELSE JpgExt

\* the image slots of the capture form: image_0 .. image_3
Slots == 0..3
SeqChars == <<"0","1","2","3">>
SeqStr(i) == <<SeqChars[i + 1]>>

\* f"{safe_qr} {safe_bldg} {safe_type} - "
ContextPrefix(safe_qr, safe_bldg, safe_type) ==
    safe_qr \o <<" ">> \o safe_bldg \o <<" ">> \o safe_type \o <<" ","-"," ">>

\* a base name without the blanks around the dash
BaseNameTight(safe_qr, safe_bldg, safe_type, i) ==
    safe_qr \o <<" ">> \o safe_bldg \o <<" ">> \o safe_type \o <<"-">> \o SeqStr(i)

\* base = f"{safe_qr} {safe_bldg} {safe_type} - {seq}"
BaseName(safe_qr, safe_bldg, safe_type, i) ==
    ContextPrefix(safe_qr, safe_bldg, safe_type) \o SeqStr(i)

\* SQLite's LIKE: "%" matches any run, "_" any one character, and ASCII
\* letters match regardless of case
RECURSIVE Like(_, _)
Like(s, pat) ==
    IF pat = <<>> THEN s = <<>>
    ELSE IF Head(pat) = "%"
         THEN Like(s, Tail(pat)) \/ (s # <<>> /\ Like(Tail(s), pat))
         ELSE /\ s # <<>>
              /\ Head(pat) = "_" \/ LowerChar(Head(pat)) = LowerChar(Head(s))
              /\ Like(Tail(s), Tail(pat))

\* rows removed by delete_from_assets_by_qr: code_assets LIKE qr_code + " %"
AssetsMatchingQr(rows, qr_code) == {k \in rows : Like(k, qr_code \o <<" ","%">>)}

\* a clear that, like the legacy uploader, knows only ".jpg" files
FilesMatchingQrJpgOnly(names, qr_code) ==
    {f \in names : StartsWith(f, qr_code \o <<" ">>) /\ EndsWith(f, JpgExt)}

\* names removed by delete_files_by_qr: fname.startswith(f"{qr_code} ")
FilesMatchingQr(names, qr_code) == {f \in names : StartsWith(f, qr_code \o <<" ">>)}

\* INSERT OR IGNORE under the unique index on code_assets
InsertIntoAssets(rows, file_bases) == rows \cup {file_bases[i] : i \in DOMAIN file_bases}

(***************************************************************************)
(* Bounds and the inputs the requests are drawn from                       *)
(***************************************************************************)
\* number of requests handled in one behaviour
MaxOps == 2

\* the contexts (qr_code, building_code, asset_type) requests are sent with:
\* a short numeric tag under two buildings and types, three payloads whose
\* tokens differ only at a "_" position or only in letter case, and contexts
\* with a missing field
Qr85011 == <<"8","5","0","1","1">>
Bldg482 == <<"4","8","2">>
Electrical == <<"E","l","e","c","t","r","i","c","a","l">>
Contexts ==
    { <<Qr85011, Bldg482, DefaultAssetType>>,
      <<Qr85011, <<" ","7"," ","5">>, Electrical>>,
      <<Qr85011, Bldg482, <<>> >>,
      << <<"a"," ","b">>, Bldg482, DefaultAssetType>>,
      << <<"a","x","b">>, Bldg482, DefaultAssetType>>,
      << <<"A"," ","B">>, Bldg482, DefaultAssetType>>,
      << <<>>, Bldg482, DefaultAssetType>>,
      <<Qr85011, <<" ">>, DefaultAssetType>> }
OverwriteInputs == {"0", "1"}

\* uploaded file names per slot; <<>> is a slot without a file
NoImages == [i \in Slots |-> <<>>]
ImageInputs ==
    { NoImages,
      [NoImages EXCEPT ![0] = <<"p",".","j","p","g">>],
      [NoImages EXCEPT ![0] = <<"p",".","P","N","G">>, ![1] = <<"q",".","j","p","g">>],
      [NoImages EXCEPT ![2] = <<"p">>, ![3] = <<"p",".","e","x","e">>] }

\* sanitize_component with the default maxlen.  The values for the strings
\* the requests of the model carry are computed once and looked up.
SanitizeInputs ==
    UNION { { <<SafeStr(c[1]), TRUE>>, <<SafeStr(c[2]), FALSE>>,
              <<MapAssetTypeToAbbrev(SafeStr(c[3])), FALSE>>,
              <<MapAssetTypeToAbbrev(DefaultAssetType), FALSE>> } : c \in Contexts }
SanitizeTable ==
    [x \in SanitizeInputs |-> SanitizeComponent(x[1], x[2], DefaultMaxLen)]
Sanitize(raw, prefer_digits) ==
    IF <<raw, prefer_digits>> \in SanitizeInputs
    THEN SanitizeTable[<<raw, prefer_digits>>]
    ELSE SanitizeComponent(raw, prefer_digits, DefaultMaxLen)

\* the Asset Key Builder on raw (trimmed) inputs
BuildKey(qr, bldg, ty, i) ==
    BaseName(Sanitize(qr, TRUE), Sanitize(bldg, FALSE),
             Sanitize(MapAssetTypeToAbbrev(ty), FALSE), i)

\* the requests that can be in progress
Procs == {"A", "B"}

VARIABLES
    files,      \* names in UPLOAD_DIR
    assets,     \* values of code_assets in the assets table (unique index)
    qrRows,     \* rows of QR_codes: <<QR_code_ID, building code>> |-> number of such rows
    req,        \* per request: its form values, locals, position and response
    validated,  \* <<sanitized QR, building code>> of the latest submit per QR that passed validation
    nops,       \* requests begun so far
    san         \* a call of sanitize_component on its own: arguments, position, result

vars == <<files, assets, qrRows, req, validated, nops, san>>

Snapshot == [files |-> files, assets |-> assets, qrRows |-> qrRows]
NoSnapshot == [files |-> {}, assets |-> {}, qrRows |-> <<>>]

\* what a request records of the request handled just before it
NoPrior == [identical |-> FALSE, saved |-> <<>>, plainSameQr |-> FALSE]

NoCall == [raw |-> <<>>, prefer_digits |-> TRUE, maxlen |-> DefaultMaxLen,
           pc |-> "idle", out |-> <<>>]

IdleReq ==
    [ kind |-> "none", pc |-> "idle",
      qr_code |-> <<>>, building_code |-> <<>>, asset_type |-> <<>>,
      overwrite |-> "0", imgs |-> NoImages, filename_raw |-> <<>>, filename |-> <<>>,
      safe_qr |-> <<>>, safe_bldg |-> <<>>, safe_type |-> <<>>,
      slot |-> 0, files_saved |-> <<>>, bases_saved |-> <<>>,
      exists |-> FALSE, todel |-> {},
      warn |-> {}, result |-> "none",
      log |-> <<>>, failed |-> FALSE, pre |-> NoSnapshot, mid |-> NoSnapshot,
      prior |-> NoPrior, during |-> {}, upsert_last |-> FALSE ]

\* The schema is the one the application is deployed with: QR_codes has the
\* columns QR_code_ID and "Building Code", the assets table has code_assets,
\* and UPLOAD_DIR exists (created at import).  All three stores start empty.
Init ==
    /\ files = {}
    /\ assets = {}
    /\ qrRows = <<>>
    /\ req = [p \in Procs |-> IdleReq]
    /\ validated = {}
    /\ nops = 0
    /\ san = NoCall

(***************************************************************************)
(* QR_codes                                                                *)
(***************************************************************************)
RowsOf(rows, qr_code) == {x \in DOMAIN rows : x[1] = qr_code}

RECURSIVE CountRows(_, _)
CountRows(rows, S) ==
    IF S = {} THEN 0
    ELSE LET x == CHOOSE y \in S : TRUE IN rows[x] + CountRows(rows, S \ {x})

\* SELECT COUNT(*) FROM QR_codes WHERE QR_code_ID = ? ... > 0
QrExists(rows, qr_code) == RowsOf(rows, qr_code) # {}

\* an upsert that inserts without looking at the SELECT
UpsertAlwaysInsert(rows, exists, qr_code, building_code) ==
    LET new == <<qr_code, building_code>>
    IN  [x \in DOMAIN rows \cup {new} |->
            IF x = new THEN (IF new \in DOMAIN rows THEN rows[new] ELSE 0) + 1
            ELSE rows[x]]

\* an upsert that keeps the building code of a QR it already knows
UpsertKeepExisting(rows, exists, qr_code, building_code) ==
    LET new == <<qr_code, building_code>>
    IN  IF exists THEN rows
        ELSE [x \in DOMAIN rows \cup {new} |->
                 IF x = new THEN (IF new \in DOMAIN rows THEN rows[new] ELSE 0) + 1
                 ELSE rows[x]]

\* the UPDATE or the INSERT of upsert_qr_codes, chosen by the earlier SELECT
UpsertQrCodes(rows, exists, qr_code, building_code) ==
    LET mine   == RowsOf(rows, qr_code)
        others == DOMAIN rows \ mine
        new    == <<qr_code, building_code>>
    IN  IF exists
        THEN IF mine = {} THEN rows
             ELSE [x \in others \cup {new} |->
                      IF x = new THEN CountRows(rows, mine) ELSE rows[x]]
        ELSE [x \in DOMAIN rows \cup {new} |->
                 IF x = new
                 THEN (IF new \in DOMAIN rows THEN rows[new] ELSE 0) + 1
                 ELSE rows[x]]

(***************************************************************************)
(* submit                                                                  *)
(***************************************************************************)
CanBegin(p) == req[p].pc \in {"idle", "done"}

\* the requests in progress when p begins
InProgress(p) == {q \in Procs \ {p} : ~CanBegin(q)}

\* req once p has begun the request new; the requests in progress keep track
\* of the requests that began while they ran
Started(p, new) ==
    [q \in Procs |->
        IF q = p THEN [new EXCEPT !.during = InProgress(p)]
        ELSE IF ~CanBegin(q) THEN [req[q] EXCEPT !.during = @ \cup {p}]
        ELSE [req[q] EXCEPT !.during = @ \ {p}]]

HasImage(r, i) == r.imgs[i] # <<>>
\* slots from r.slot on that carry a file
Pending(r) == {i \in Slots : i >= r.slot /\ HasImage(r, i)}

\* a submit that clears after it has saved the new files
SubmitFlowClearLast(r, from) ==
    CASE from = "validate" ->
            IF Pending(r) # {} THEN "save"
            ELSE IF r.overwrite = "1" THEN "clear_db" ELSE "db_check"
      [] from = "save" -> IF r.overwrite = "1" THEN "clear_db" ELSE "db_check"
      [] from = "clear" -> "db_check"

\* the order of the phases of submit after the validation
SubmitFlow(r, from) ==
    CASE from = "validate" ->
            IF r.overwrite = "1" THEN "clear_db"
            ELSE IF Pending(r) # {} THEN "save" ELSE "db_check"
      [] from = "clear" -> IF Pending(r) # {} THEN "save" ELSE "db_check"
      [] from = "save" -> "db_check"

\* a validation that forgets the building
SubmitValidQrOnly(qr_code, building_code) == qr_code # <<>>

\* the check "if not qr_code or not building_code" of submit, negated
SubmitValid(qr_code, building_code) == qr_code # <<>> /\ building_code # <<>>

Inputs(r) == <<r.kind, r.qr_code, r.building_code, r.asset_type, r.overwrite,
               r.imgs, r.filename_raw>>

\* relation of the request r0 about to start to the request o just completed:
\* the same request again, or a submit after a plain (no overwrite, no
\* failure) submit for the same QR that saved other files
Prior(o, r0, safe_qr) ==
    LET again == o.pc = "done" /\ Inputs(o) = Inputs(r0)
    IN  [ identical   |-> again,
          saved       |-> IF again THEN o.files_saved ELSE <<>>,
          plainSameQr |-> /\ o.pc = "done" /\ o.kind = "submit" /\ o.result = "ok"
                          /\ ~o.failed /\ o.overwrite = "0" /\ o.safe_qr = safe_qr
                          /\ o.files_saved # <<>>
                          /\ <<o.building_code, o.asset_type, o.imgs>>
                               # <<r0.building_code, r0.asset_type, r0.imgs>> ]

BeginSubmit(p, qrRaw, bRaw, tRaw, ow, images) ==
    LET qr_code       == SafeStr(qrRaw)
        building_code == SafeStr(bRaw)
        asset_type    == SafeStr(IF tRaw = <<>> THEN DefaultAssetType ELSE tRaw)
        valid         == SubmitValid(qr_code, building_code)
        r0 == [IdleReq EXCEPT !.kind = "submit", !.qr_code = qr_code,
                  !.building_code = building_code, !.asset_type = asset_type,
                  !.overwrite = ow, !.imgs = images, !.pre = Snapshot,
                  !.log = <<"validate">>]
        r1 == [r0 EXCEPT !.safe_qr = Sanitize(qr_code, TRUE),
                  !.prior = Prior(req[p], r0, Sanitize(qr_code, TRUE)),
                  !.safe_bldg = Sanitize(building_code, FALSE),
                  !.safe_type = Sanitize(MapAssetTypeToAbbrev(asset_type), FALSE)]
    IN  /\ CanBegin(p)
        /\ nops < MaxOps
        /\ nops' = nops + 1
        /\ req' = Started(p,
                     IF valid THEN [r1 EXCEPT !.pc = SubmitFlow(r1, "validate")]
                     ELSE [r0 EXCEPT !.pc = "done", !.result = "invalid",
                                     !.prior = Prior(req[p], r0, <<>>)])
        /\ validated' =
              IF valid
              THEN {x \in validated : x[1] # r1.safe_qr} \cup {<<r1.safe_qr, building_code>>}
              ELSE validated
        /\ UNCHANGED <<files, assets, qrRows, san>>

\* delete_from_assets_by_qr and its commit
ClearDb(p) ==
    LET r == req[p]
    IN  /\ r.pc = "clear_db"
        /\ assets' = assets \ AssetsMatchingQr(assets, r.safe_qr)
        /\ req' = [req EXCEPT ![p] = [r EXCEPT !.pc = "clear_ls",
                                         !.log = Append(@, "clear_db")]]
        /\ UNCHANGED <<files, qrRows, validated, nops, san>>

\* delete_files_by_qr: os.listdir and the prefix test
ClearLs(p) ==
    LET r == req[p]
        hit == FilesMatchingQr(files, r.safe_qr)
    IN  /\ r.pc = "clear_ls"
        /\ req' = [req EXCEPT ![p] =
                     [r EXCEPT !.todel = hit, !.log = Append(@, "clear_ls"),
                               !.pc = IF hit = {} THEN SubmitFlow(r, "clear")
                                      ELSE "clear_rm"]]
        /\ UNCHANGED <<files, assets, qrRows, validated, nops, san>>

\* delete_files_by_qr: one os.remove (a name already gone raises, swallowed)
ClearRm(p) ==
    LET r == req[p]
    IN  /\ r.pc = "clear_rm"
        /\ \E f \in r.todel :
              /\ files' = files \ {f}
              /\ req' = [req EXCEPT ![p] =
                           [r EXCEPT !.todel = @ \ {f}, !.log = Append(@, "clear_rm"),
                                     !.pc = IF r.todel = {f} THEN SubmitFlow(r, "clear")
                                            ELSE "clear_rm"]]
        /\ UNCHANGED <<assets, qrRows, validated, nops, san>>

\* one pass of the loop over image_0..image_3 that finds a file: save_image_file
Save(p) ==
    LET r     == req[p]
        i     == CHOOSE j \in Pending(r) : \A k \in Pending(r) : j <= k
        base  == BaseName(r.safe_qr, r.safe_bldg, r.safe_type, i)
        fname == base \o UploadExt(r.imgs[i])
        r1    == [r EXCEPT !.slot = i + 1, !.bases_saved = Append(@, base),
                           !.files_saved = Append(@, fname),
                           !.log = Append(@, "save")]
    IN  /\ r.pc = "save"
        /\ files' = files \cup {fname}
        /\ req' = [req EXCEPT ![p] =
                     [r1 EXCEPT !.pc = IF Pending(r1) # {} THEN "save"
                                       ELSE SubmitFlow(r1, "save")]]
        /\ UNCHANGED <<assets, qrRows, validated, nops, san>>

\* _open_db and the SELECT COUNT(*) of upsert_qr_codes
DbCheck(p) ==
    LET r == req[p]
    IN  /\ r.pc = "db_check"
        /\ req' = [req EXCEPT ![p] =
                     [r EXCEPT !.exists = QrExists(qrRows, r.safe_qr), !.mid = Snapshot,
                               !.pc = "db_write", !.log = Append(@, "db_check")]]
        /\ UNCHANGED <<files, assets, qrRows, validated, nops, san>>

\* the UPDATE/INSERT of upsert_qr_codes, insert_into_assets and the commit,
\* then the response listing files_saved
DbWrite(p) ==
    LET r == req[p]
    IN  /\ r.pc = "db_write"
        /\ qrRows' = UpsertQrCodes(qrRows, r.exists, r.safe_qr, r.building_code)
        /\ assets' = IF r.bases_saved # <<>> THEN InsertIntoAssets(assets, r.bases_saved)
                     ELSE assets
        /\ req' = [q \in Procs |->
                     IF q = p THEN [r EXCEPT !.pc = "done", !.result = "ok",
                                             !.upsert_last = TRUE,
                                             !.log = Append(@, "db_write")]
                     ELSE [req[q] EXCEPT !.upsert_last = FALSE]]
        /\ UNCHANGED <<files, validated, nops, san>>

(***************************************************************************)
(* delete_upload                                                           *)
(***************************************************************************)
PngExt == <<".","p","n","g">>

\* file names a client may send for a context: any stored name, as it is or
\* behind a directory part, the bare key of slot 0, and slot 0 under an
\* extension that may not be the stored one
DeleteNames(qrRaw, bRaw, tRaw) ==
    files \cup { <<"d","/">> \o f : f \in files }
          \cup { BuildKey(SafeStr(qrRaw), SafeStr(bRaw), SafeStr(tRaw), 0),
                 BuildKey(SafeStr(qrRaw), SafeStr(bRaw), SafeStr(tRaw), 0) \o PngExt }

\* a context check that compares the QR token only
BelongsToQrOnly(filename, safe_qr, safe_bldg, safe_type) ==
    StartsWith(filename, safe_qr \o <<" ">>)

\* filename.startswith(expected_prefix)
BelongsToContext(filename, safe_qr, safe_bldg, safe_type) ==
    StartsWith(filename, ContextPrefix(safe_qr, safe_bldg, safe_type))

BeginDelete(p, qrRaw, bRaw, tRaw, fnRaw) ==
    LET qr_code       == SafeStr(qrRaw)
        building_code == SafeStr(bRaw)
        asset_type    == SafeStr(tRaw)
        filename      == Basename(SafeStr(fnRaw))
        present       == /\ qr_code # <<>> /\ building_code # <<>>
                         /\ asset_type # <<>> /\ filename # <<>>
        r0 == [IdleReq EXCEPT !.kind = "delete", !.qr_code = qr_code,
                  !.building_code = building_code, !.asset_type = asset_type,
                  !.filename_raw = fnRaw, !.filename = filename, !.pre = Snapshot,
                  !.log = <<"validate">>]
        r1 == [r0 EXCEPT !.safe_qr = Sanitize(qr_code, TRUE),
                  !.safe_bldg = Sanitize(building_code, FALSE),
                  !.safe_type = Sanitize(MapAssetTypeToAbbrev(asset_type), FALSE)]
    IN  /\ CanBegin(p)
        /\ nops < MaxOps
        /\ nops' = nops + 1
        /\ req' = Started(p,
                     IF ~present
                     THEN [r0 EXCEPT !.pc = "done", !.result = "missing parameters"]
                     ELSE IF ~BelongsToContext(filename, r1.safe_qr, r1.safe_bldg,
                                               r1.safe_type)
                     THEN [r1 EXCEPT !.pc = "done",
                                     !.result = "filename not in this context"]
                     ELSE [r1 EXCEPT !.pc = "del_file"])
        /\ UNCHANGED <<files, assets, qrRows, validated, san>>

\* os.path.exists and os.remove
DelFile(p) ==
    LET r == req[p]
    IN  /\ r.pc = "del_file"
        /\ files' = files \ {r.filename}
        /\ req' = [req EXCEPT ![p] = [r EXCEPT !.pc = "del_db",
                                         !.log = Append(@, "del_file")]]
        /\ UNCHANGED <<assets, qrRows, validated, nops, san>>

\* DELETE FROM assets WHERE code_assets = base, and the commit
DelDb(p) ==
    LET r == req[p]
        base == Splitext(r.filename)[1]
    IN  /\ r.pc = "del_db"
        /\ assets' = assets \ {base}
        /\ req' = [req EXCEPT ![p] = [r EXCEPT !.pc = "done", !.result = "ok",
                                         !.log = Append(@, "del_db")]]
        /\ UNCHANGED <<files, qrRows, validated, nops, san>>

(***************************************************************************)
(* I/O failures                                                            *)
(***************************************************************************)
\* the except branch of the overwrite clear: a warning, the handler goes on
ClearDbFail(p) ==
    LET r == req[p]
    IN  /\ r.pc = "clear_db"
        /\ req' = [req EXCEPT ![p] =
                     [r EXCEPT !.pc = "clear_ls", !.failed = TRUE,
                               !.warn = @ \cup {"could not clear prior DB rows"},
                               !.log = Append(@, "clear_db")]]
        /\ UNCHANGED <<files, assets, qrRows, validated, nops, san>>

\* os.remove raises inside delete_files_by_qr: swallowed, the file stays
ClearRmFail(p) ==
    LET r == req[p]
    IN  /\ r.pc = "clear_rm"
        /\ \E f \in r.todel :
              req' = [req EXCEPT ![p] =
                        [r EXCEPT !.todel = @ \ {f}, !.failed = TRUE,
                                  !.log = Append(@, "clear_rm"),
                                  !.pc = IF r.todel = {f} THEN SubmitFlow(r, "clear")
                                         ELSE "clear_rm"]]
        /\ UNCHANGED <<files, assets, qrRows, validated, nops, san>>

\* save_image_file raises (its fallback storage.save fails): nothing catches
\* it, the request ends with a server error; the file may be partly written
SaveFail(p) ==
    LET r     == req[p]
        i     == CHOOSE j \in Pending(r) : \A k \in Pending(r) : j <= k
        fname == BaseName(r.safe_qr, r.safe_bldg, r.safe_type, i) \o UploadExt(r.imgs[i])
    IN  /\ r.pc = "save"
        /\ files' \in {files, files \cup {fname}}
        /\ req' = [req EXCEPT ![p] =
                     [r EXCEPT !.pc = "done", !.result = "exception", !.failed = TRUE,
                               !.log = Append(@, "save")]]
        /\ UNCHANGED <<assets, qrRows, validated, nops, san>>

\* the except branch of the DB writes, reached from _open_db or the SELECT
DbCheckFail(p) ==
    LET r == req[p]
    IN  /\ r.pc = "db_check"
        /\ req' = [req EXCEPT ![p] =
                     [r EXCEPT !.pc = "done", !.result = "ok", !.failed = TRUE,
                               !.mid = Snapshot,
                               !.warn = @ \cup {"could not write to database"},
                               !.log = Append(@, "db_check")]]
        /\ UNCHANGED <<files, assets, qrRows, validated, nops, san>>

\* a failing DB write that removes the files the request has saved
DbWriteFailRollback(p) ==
    LET r == req[p]
    IN  /\ r.pc = "db_write"
        /\ files' = files \ {r.files_saved[i] : i \in DOMAIN r.files_saved}
        /\ req' = [req EXCEPT ![p] =
                     [r EXCEPT !.pc = "done", !.result = "ok", !.failed = TRUE,
                               !.warn = @ \cup {"could not write to database"},
                               !.log = Append(@, "db_write")]]
        /\ UNCHANGED <<assets, qrRows, validated, nops, san>>

\* the except branch of the DB writes, reached from a write or the commit:
\* the connection is closed uncommitted
DbWriteFail(p) ==
    LET r == req[p]
    IN  /\ r.pc = "db_write"
        /\ req' = [req EXCEPT ![p] =
                     [r EXCEPT !.pc = "done", !.result = "ok", !.failed = TRUE,
                               !.warn = @ \cup {"could not write to database"},
                               !.log = Append(@, "db_write")]]
        /\ UNCHANGED <<files, assets, qrRows, validated, nops, san>>

\* the INSERT of upsert_qr_codes raises where QR_codes has a key on
\* QR_code_ID and another request has inserted the QR since the SELECT: the
\* except branch of the DB writes, nothing is committed
DbWriteConflict(p) ==
    LET r == req[p]
    IN  /\ r.pc = "db_write"
        /\ ~r.exists /\ QrExists(qrRows, r.safe_qr)
        /\ req' = [req EXCEPT ![p] =
                     [r EXCEPT !.pc = "done", !.result = "ok", !.failed = TRUE,
                               !.warn = @ \cup {"could not write to database"},
                               !.log = Append(@, "db_write")]]
        /\ UNCHANGED <<files, assets, qrRows, validated, nops, san>>

\* os.remove raises in delete_upload: error 500, the row is not touched
DelFileFail(p) ==
    LET r == req[p]
    IN  /\ r.pc = "del_file"
        /\ r.filename \in files
        /\ req' = [req EXCEPT ![p] =
                     [r EXCEPT !.pc = "done", !.result = "cannot delete file",
                               !.failed = TRUE, !.log = Append(@, "del_file")]]
        /\ UNCHANGED <<files, assets, qrRows, validated, nops, san>>

\* a failing DB delete that puts the removed file back
DelDbFailRecreate(p) ==
    LET r == req[p]
    IN  /\ r.pc = "del_db"
        /\ files' = r.pre.files
        /\ req' = [req EXCEPT ![p] =
                     [r EXCEPT !.pc = "done", !.result = "db error",
                               !.failed = TRUE, !.log = Append(@, "del_db")]]
        /\ UNCHANGED <<assets, qrRows, validated, nops, san>>

\* the DB delete of delete_upload raises: error 500, the file is gone
DelDbFail(p) ==
    LET r == req[p]
    IN  /\ r.pc = "del_db"
        /\ req' = [req EXCEPT ![p] =
                     [r EXCEPT !.pc = "done", !.result = "db error",
                               !.failed = TRUE, !.log = Append(@, "del_db")]]
        /\ UNCHANGED <<files, assets, qrRows, validated, nops, san>>

(***************************************************************************)
(* list_existing_uploads                                                   *)
(***************************************************************************)
DigitChars == <<"0","1","2","3","4","5","6","7","8","9">>
DigitVal(c) == CHOOSE d \in 0..9 : DigitChars[d + 1] = c

\* str.isdigit on an ASCII string
IsDigit(s) == s # <<>> /\ \A i \in DOMAIN s : s[i] \in Digits

\* int(s) for a string of digits
RECURSIVE ParseInt(_)
ParseInt(s) ==
    IF s = <<>> THEN 0
    ELSE 10 * ParseInt(SubSeq(s, 1, Len(s) - 1)) + DigitVal(s[Len(s)])

\* str(i) for i >= 0
RECURSIVE IntToStr(_)
IntToStr(i) ==
    IF i < 10 THEN <<DigitChars[i + 1]>>
    ELSE IntToStr(i \div 10) \o <<DigitChars[(i % 10) + 1]>>

AssetPlate == <<"A","s","s","e","t"," ","P","l","a","t","e">>
UbcTag == <<"U","B","C"," ","T","a","g">>
MainAssetPhoto == <<"M","a","i","n"," ","A","s","s","e","t"," ","P","h","o","t","o">>
TechnicalSafetyBC ==
    <<"T","e","c","h","n","i","c","a","l"," ","S","a","f","e","t","y"," ","B","C">>
Photo == <<"P","h","o","t","o">>
Mechanical == <<"m","e","c","h","a","n","i","c","a","l">>

\* mech_map and other_map of seq_to_label
MechMap == (0 :> AssetPlate) @@ (1 :> UbcTag) @@ (2 :> MainAssetPhoto)
              @@ (3 :> TechnicalSafetyBC)
OtherMap == (0 :> AssetPlate) @@ (1 :> UbcTag) @@ (2 :> MainAssetPhoto)

\* a labelling that knows one table only, whatever the asset type
SeqToLabelOneTable(asset_type, seq) ==
    IF ~IsDigit(seq) THEN Photo
    ELSE LET i == ParseInt(seq)
         IN  IF i \in DOMAIN MechMap THEN MechMap[i] ELSE Photo \o <<" ">> \o IntToStr(i)

\* seq is the group the listing's pattern captured, or "" (int("") raises)
SeqToLabel(asset_type, seq) ==
    LET t == LowerStr(Strip(asset_type))
    IN  IF ~IsDigit(seq) THEN Photo
        ELSE LET i == ParseInt(seq)
                 m == IF t = Mechanical THEN MechMap ELSE OtherMap
             IN  IF i \in DOMAIN m THEN m[i] ELSE Photo \o <<" ">> \o IntToStr(i)

\* re.search(r'\s-\s(\d+)$', base): group 1, or "" without a match.  The run
\* of digits that ends base must follow white space, a dash and white space.
SeqOf(base) ==
    LET n == TrailIn(base, Digits)
        k == Len(base) - n
    IN  IF /\ n >= 1 /\ k >= 3
           /\ base[k] \in Whitespace /\ base[k - 1] = "-" /\ base[k - 2] \in Whitespace
        THEN Drop(base, k)
        ELSE <<>>

\* the names of the directory the loop of list_existing_uploads keeps
Listed(names, prefix) ==
    {f \in names : /\ \E e \in AllowedExts : EndsWith(LowerStr(f), e)
                   /\ StartsWith(f, prefix)}

\* one element of the list (its "url" is the route of "filename" and is left out)
UploadEntry(fname, asset_type) ==
    LET base == Splitext(fname)[1]
    IN  [filename |-> fname, base |-> base, seq |-> SeqOf(base),
         label |-> SeqToLabel(asset_type, SeqOf(base))]

\* the rank the sort gives to an entry without digits
SortLast == 9999
SortKey(e) == IF IsDigit(e.seq) THEN ParseInt(e.seq) ELSE SortLast

\* The lists list_existing_uploads can return: os.listdir yields the names in
\* any order and the sort is stable, so entries of equal key come in any order.
ListExistingUploads(names, qr_code, building_code, asset_type) ==
    LET safe_qr   == Sanitize(qr_code, TRUE)
        safe_bldg == Sanitize(building_code, FALSE)
        safe_type == Sanitize(MapAssetTypeToAbbrev(asset_type), FALSE)
        prefix    == ContextPrefix(safe_qr, safe_bldg, safe_type)
        out       == {UploadEntry(f, asset_type) : f \in Listed(names, prefix)}
    IN  {s \in [1..Cardinality(out) -> out] :
            \A i, j \in DOMAIN s : i < j => s[i] # s[j] /\ SortKey(s[i]) <= SortKey(s[j])}

(***************************************************************************)
(* sanitize_component called on its own                                    *)
(***************************************************************************)
\* longest raw string made of the characters of SanChars
MaxRawLen == 3

\* a letter, a digit, a blank, the two illegal characters the scheme and the
\* path rules look at, a dot the final strip removes, and a character of no class
SanChars == {"a", "7", " ", "/", ":", ".", "#"}

RECURSIVE StringsUpTo(_, _)
StringsUpTo(cs, n) ==
    IF n = 0 THEN {<<>>}
    ELSE LET shorter == StringsUpTo(cs, n - 1)
         IN  shorter \cup {Append(s, c) : s \in shorter, c \in cs}

\* payloads with a run of six or more digits, with and without a scheme
SanSamples ==
    { <<"h","t","t","p",":","/","/","x","/","1","2","3","4","5","6","?","a">>,
      <<"1","2","3","4","5"," ","1","2","3","4","5","6","7","<","b">>,
      <<"a",":","\\","b","|","c","*","\t","d","\"","e",">">> }
SanRaws == StringsUpTo(SanChars, MaxRawLen) \cup SanSamples

\* values of maxlen: below, at and above the lengths of the results, and the default
SanMaxLens == {-1, 0, 1, 2, 5, DefaultMaxLen}

InitSanitize ==
    /\ files = {} /\ assets = {} /\ qrRows = <<>>
    /\ req = [p \in Procs |-> IdleReq]
    /\ validated = {} /\ nops = 0
    /\ san \in [raw : SanRaws, prefer_digits : BOOLEAN, maxlen : SanMaxLens,
                pc : {"call"}, out : {<<>>}]

SanitizeCall ==
    /\ san.pc = "call"
    /\ san' = [san EXCEPT !.pc = "return",
                          !.out = SanitizeComponent(san.raw, san.prefer_digits, san.maxlen)]
    /\ UNCHANGED <<files, assets, qrRows, req, validated, nops>>

(***************************************************************************)
(* Specifications                                                          *)
(***************************************************************************)
Begin(p) ==
    \/ \E c \in Contexts, ow \in OverwriteInputs, im \in ImageInputs :
          BeginSubmit(p, c[1], c[2], c[3], ow, im)
    \/ \E c \in Contexts :
          \E fn \in DeleteNames(c[1], c[2], c[3]) : BeginDelete(p, c[1], c[2], c[3], fn)

Step(p) ==
    \/ ClearDb(p) \/ ClearLs(p) \/ ClearRm(p) \/ Save(p)
    \/ DbCheck(p) \/ DbWrite(p) \/ DelFile(p) \/ DelDb(p)

Fail(p) ==
    \/ ClearDbFail(p) \/ ClearRmFail(p) \/ SaveFail(p)
    \/ DbCheckFail(p) \/ DbWriteFail(p) \/ DelFileFail(p) \/ DelDbFail(p)

\* one request at a time, no I/O failure
Next == Begin("A") \/ Step("A")
Spec == Init /\ [][Next]_vars

\* one request at a time, any I/O operation may fail
NextF == Begin("A") \/ Step("A") \/ Fail("A")
SpecF == Init /\ [][NextF]_vars

\* Requests handled at the same time (one worker per request, no lock): the
\* steps of the submits of A and B interleave.  The submits are for one QR,
\* under two buildings and types, with or without overwrite and an image.
ConcContexts ==
    { <<Qr85011, Bldg482, DefaultAssetType>>,
      <<Qr85011, <<" ","7"," ","5">>, Electrical>> }
ConcImages == { NoImages, [NoImages EXCEPT ![0] = <<"p",".","j","p","g">>] }

BeginConc(p) ==
    \E c \in ConcContexts, ow \in OverwriteInputs, im \in ConcImages :
        BeginSubmit(p, c[1], c[2], c[3], ow, im)

SubmitStep(p) ==
    \/ ClearDb(p) \/ ClearLs(p) \/ ClearRm(p) \/ Save(p) \/ DbCheck(p) \/ DbWrite(p)

NextConc == \E p \in Procs : BeginConc(p) \/ SubmitStep(p) \/ DbWriteConflict(p)
SpecConc == Init /\ [][NextConc]_vars

\* sanitize_component applied once to each input
NextSanitize == SanitizeCall
SpecSanitize == InitSanitize /\ [][NextSanitize]_vars

(***************************************************************************)
(* Properties                                                              *)
(***************************************************************************)
Range(s) == {s[i] : i \in DOMAIN s}
WithPrefix(S, pfx) == {x \in S : StartsWith(x, pfx)}
QrPrefix(r) == r.safe_qr \o <<" ">>
Done(r) == r.pc = "done"
CleanSubmit(r) == r.kind = "submit" /\ Done(r) /\ r.result = "ok" /\ ~r.failed
SlotsOf(r) == {i \in Slots : r.imgs[i] # <<>>}

\* C1: when a failure-free submit with overwrite set has completed, the
\* stored files and the asset records whose name starts with the sanitized QR
\* and a space are exactly the files and keys that submit saved; nothing of
\* an earlier submission for the QR remains.
C1_OverwriteLeavesNewSet ==
    \A p \in Procs :
        LET r == req[p]
        IN  CleanSubmit(r) /\ r.overwrite = "1" =>
               /\ WithPrefix(files, QrPrefix(r)) = Range(r.files_saved)
               /\ WithPrefix(assets, QrPrefix(r)) = Range(r.bases_saved)
               /\ Len(r.files_saved) = Cardinality(SlotsOf(r))

\* an overwriting submit with images has completed right after a plain submit
\* for the same QR that had stored other files, one of which is now gone
C1_Witness ==
    \E p \in Procs :
        LET r == req[p]
        IN  /\ CleanSubmit(r) /\ r.overwrite = "1" /\ r.prior.plainSameQr
            /\ r.files_saved # <<>>
            /\ WithPrefix(r.pre.files, QrPrefix(r)) \ files # {}
            /\ WithPrefix(r.pre.assets, QrPrefix(r)) \ assets # {}

ClearLabels == {"clear_db", "clear_ls", "clear_rm"}
WriteLabels == {"save", "db_check", "db_write"}

\* C2: in a submit with overwrite requested, every step that writes a file or
\* touches the database for the new records comes after the deletion of the
\* prior records, after the listing of the prior files and after every
\* removal of the clear; no clear step follows a write step.
C2_ClearBeforeWrites ==
    \A p \in Procs :
        LET r == req[p]
        IN  r.kind = "submit" /\ r.overwrite = "1" /\ r.result # "invalid" =>
               /\ \A j \in DOMAIN r.log :
                     r.log[j] \in WriteLabels =>
                        /\ \E i \in 1..(j - 1) : r.log[i] = "clear_db"
                        /\ \E i \in 1..(j - 1) : r.log[i] = "clear_ls"
                        /\ \A k \in j..Len(r.log) : r.log[k] \notin ClearLabels
               /\ r.pc \in {"save", "db_check", "db_write", "done"} => r.todel = {}
               /\ r.files_saved # <<>> => r.pc \notin ClearLabels

\* an overwriting submit that removed prior files and has then written
C2_Witness ==
    \E p \in Procs :
        LET r == req[p]
        IN  /\ r.kind = "submit" /\ r.overwrite = "1" /\ Done(r) /\ r.result = "ok"
            /\ \E i \in DOMAIN r.log : r.log[i] = "clear_rm"
            /\ \E i \in DOMAIN r.log : r.log[i] = "save"

\* C3: a submit whose QR or building is empty after trimming ends with the
\* validation error at once, and the upload directory, the assets table and
\* the QR mapping are what they were when it started.
C3_InvalidSubmitNoEffect ==
    \A p \in Procs :
        LET r == req[p]
        IN  r.kind = "submit" /\ (r.qr_code = <<>> \/ r.building_code = <<>>) =>
               /\ Done(r) /\ r.result = "invalid"
               /\ Snapshot = r.pre
               /\ r.files_saved = <<>> /\ r.log = <<"validate">>

\* an invalid submit that asked for overwrite and carried images, in a state
\* with stored files and records
C3_Witness ==
    \E p \in Procs :
        LET r == req[p]
        IN  /\ r.kind = "submit" /\ r.result = "invalid" /\ r.overwrite = "1"
            /\ SlotsOf(r) # {} /\ files # {} /\ assets # {} /\ DOMAIN qrRows # {}

\* the prefix delete_upload derives from the context it is given
DerivedPrefix(r) ==
    ContextPrefix(SanitizeComponent(r.qr_code, TRUE, DefaultMaxLen),
                  SanitizeComponent(r.building_code, FALSE, DefaultMaxLen),
                  SanitizeComponent(MapAssetTypeToAbbrev(r.asset_type), FALSE,
                                    DefaultMaxLen))

\* C4 as stated: a deleteOne whose filename, as sent, does not start with the
\* prefix derived from its context ends with an error and changes neither the
\* upload directory nor the assets table.
C4_SentNameRejected ==
    \A p \in Procs :
        LET r == req[p]
        IN  r.kind = "delete" /\ Done(r) /\ ~StartsWith(r.filename_raw, DerivedPrefix(r)) =>
               /\ r.result \in {"filename not in this context", "missing parameters"}
               /\ files = r.pre.files /\ assets = r.pre.assets

\* C4, amended: a deleteOne ends with an error, and the upload directory and
\* the assets table are what they were when it started, whenever the last
\* path component of its trimmed filename does not start with the prefix
\* derived from its context.
C4_ForeignDeleteRejected ==
    \A p \in Procs :
        LET r == req[p]
        IN  r.kind = "delete" /\ ~StartsWith(r.filename, DerivedPrefix(r)) =>
               /\ Done(r)
               /\ r.result \in {"filename not in this context", "missing parameters"}
               /\ files = r.pre.files /\ assets = r.pre.assets

\* a deleteOne with a complete context that names a stored file, with its
\* record, of another context
C4_Witness ==
    \E p \in Procs :
        LET r == req[p]
        IN  /\ r.kind = "delete" /\ r.result = "filename not in this context"
            /\ r.filename \in files /\ Splitext(r.filename)[1] \in assets

\* C5: a submit without overwrite that repeats the request completed just
\* before it ends without an error, reports the same saved files, and leaves
\* the upload directory, the assets table and the QR mapping as the first
\* run left them.
C5_ResubmitIdempotent ==
    \A p \in Procs :
        LET r == req[p]
        IN  r.kind = "submit" /\ Done(r) /\ r.prior.identical /\ r.overwrite = "0"
            /\ ~r.failed =>
               /\ r.result \in {"ok", "invalid"}
               /\ r.files_saved = r.prior.saved
               /\ Snapshot = r.pre

\* a repeated submit that saved files and found its QR in the mapping
C5_Witness ==
    \E p \in Procs :
        LET r == req[p]
        IN  /\ CleanSubmit(r) /\ r.prior.identical /\ r.overwrite = "0"
            /\ r.files_saved # <<>> /\ r.exists
            /\ Range(r.bases_saved) \subseteq r.pre.assets

\* no request is in progress
Quiet == \A p \in Procs : req[p].pc \in {"idle", "done"}
BaseOf(f) == Splitext(f)[1]

\* C6 as stated: between requests, every asset record is the extension-less
\* name of exactly one stored file and every stored file's extension-less
\* name is an asset record.
C6_OneToOne ==
    Quiet =>
       /\ \A k \in assets : Cardinality({f \in files : BaseOf(f) = k}) = 1
       /\ \A f \in files : BaseOf(f) \in assets

\* C7 as stated: when the clear of an overwriting submit has completed, the
\* records it deleted are exactly those whose key starts with the sanitized
\* QR and a space, the files it deleted are exactly those whose name starts
\* with it, everything else is unchanged, and the deleted records are the
\* extension-less names of the deleted files.
C7_ClearExactlyQr ==
    \A p \in Procs :
        LET r == req[p]
            goneA == r.pre.assets \ assets
            goneF == r.pre.files \ files
        IN  /\ r.kind = "submit" /\ r.overwrite = "1" /\ ~r.failed
            /\ r.pc \in {"save", "db_check"} /\ r.files_saved = <<>>
            /\ \A i \in DOMAIN r.log : r.log[i] # "db_check"
            =>
               /\ assets \subseteq r.pre.assets /\ files \subseteq r.pre.files
               /\ goneA = WithPrefix(r.pre.assets, QrPrefix(r))
               /\ goneF = WithPrefix(r.pre.files, QrPrefix(r))
               /\ {BaseOf(f) : f \in goneF} = goneA

\* C8: between requests, the QR mapping has exactly one row for each
\* sanitized QR for which a submit has passed validation and no other row,
\* and the row carries the building code of the latest such submit.
C8_MappingLifecycle ==
    Quiet =>
       /\ DOMAIN qrRows = validated
       /\ \A x \in DOMAIN qrRows : qrRows[x] = 1

\* a submit without images has replaced the building code of a QR that was
\* in the mapping, and another QR's row is still there
C8_Witness ==
    \E p \in Procs :
        LET r == req[p]
        IN  /\ CleanSubmit(r) /\ r.exists /\ SlotsOf(r) = {}
            /\ \E x \in DOMAIN r.pre.qrRows :
                  x[1] = r.safe_qr /\ x[2] # r.building_code /\ x \notin DOMAIN qrRows
            /\ <<r.safe_qr, r.building_code>> \in DOMAIN qrRows

\* C9: a submit whose DB write phase failed still ends normally with a
\* warning and the names of all files it saved, those files are in the upload
\* directory, and the assets table and the QR mapping are as they were when
\* the write phase began.
C9_DbFailureKeepsFiles ==
    \A p \in Procs :
        LET r == req[p]
        IN  r.kind = "submit" /\ Done(r) /\ "could not write to database" \in r.warn =>
               /\ r.result = "ok"
               /\ Len(r.files_saved) = Cardinality(SlotsOf(r))
               /\ Range(r.files_saved) \subseteq files
               /\ files = r.mid.files
               /\ assets = r.mid.assets /\ qrRows = r.mid.qrRows

\* a submit that saved files for a QR unknown to the mapping ended with the
\* DB warning after the SELECT had succeeded
C9_Witness ==
    \E p \in Procs :
        LET r == req[p]
        IN  /\ r.kind = "submit" /\ Done(r) /\ "could not write to database" \in r.warn
            /\ r.files_saved # <<>> /\ r.log[Len(r.log)] = "db_write"
            /\ Range(r.bases_saved) \cap assets = {}
            /\ RowsOf(qrRows, r.safe_qr) = {}

\* the key of slot i for the form values of r, written out
KeyOf(r, i) ==
    SanitizeComponent(r.qr_code, TRUE, DefaultMaxLen) \o <<" ">>
    \o SanitizeComponent(r.building_code, FALSE, DefaultMaxLen) \o <<" ">>
    \o SanitizeComponent(MapAssetTypeToAbbrev(r.asset_type), FALSE, DefaultMaxLen)
    \o <<" ", "-", " ", SeqChars[i + 1]>>

Key85011 == <<"8","5","0","1","1"," ","4","8","2"," ","M","E"," ","-"," ","0">>

\* C10: a failure-free submit that passed validation has saved, for each slot
\* that carried an image, the file named by the key of the slot plus its
\* extension and the record with that key; it has created no other file and
\* no other record; every record key ends in " - " and a digit 0..3.  QR
\* "85011", building "482", type "Mechanical" and a .jpg in slot 0 give the
\* file "85011 482 ME - 0.jpg", the key "85011 482 ME - 0" and the mapping
\* row ("85011", "482").
C10_SubmitPostcondition ==
    /\ \A p \in Procs :
          LET r == req[p]
              keys  == {KeyOf(r, i) : i \in SlotsOf(r)}
              names == {KeyOf(r, i) \o UploadExt(r.imgs[i]) : i \in SlotsOf(r)}
          IN  CleanSubmit(r) =>
                 /\ Range(r.bases_saved) = keys /\ Range(r.files_saved) = names
                 /\ names \subseteq files /\ keys \subseteq assets
                 /\ files \ r.pre.files \subseteq names
                 /\ assets \ r.pre.assets \subseteq keys
                 /\ <<r.safe_qr, r.building_code>> \in DOMAIN qrRows
                 /\ ( /\ r.qr_code = Qr85011 /\ r.building_code = Bldg482
                      /\ r.asset_type = DefaultAssetType
                      /\ r.imgs = [NoImages EXCEPT ![0] = <<"p",".","j","p","g">>]
                      => /\ r.files_saved = <<Key85011 \o <<".","j","p","g">> >>
                         /\ r.bases_saved = <<Key85011>>
                         /\ <<Qr85011, Bldg482>> \in DOMAIN qrRows )
    /\ \A k \in assets :
          /\ Len(k) >= 4
          /\ SubSeq(k, Len(k) - 3, Len(k) - 1) = <<" ", "-", " ">>
          /\ k[Len(k)] \in {"0", "1", "2", "3"}

\* the submit of the example has completed
C10_Witness ==
    \E p \in Procs :
        LET r == req[p]
        IN  /\ CleanSubmit(r) /\ r.qr_code = Qr85011 /\ r.building_code = Bldg482
            /\ r.asset_type = DefaultAssetType
            /\ r.imgs = [NoImages EXCEPT ![0] = <<"p",".","j","p","g">>]
            /\ Key85011 \o <<".","j","p","g">> \in files /\ Key85011 \in assets


\* the label table of the listing, per asset type, indexed by sequence number + 1
LabelTable(asset_type) ==
    IF LowerStr(Strip(asset_type)) = <<"m","e","c","h","a","n","i","c","a","l">>
    THEN << <<"A","s","s","e","t"," ","P","l","a","t","e">>,
            <<"U","B","C"," ","T","a","g">>,
            <<"M","a","i","n"," ","A","s","s","e","t"," ","P","h","o","t","o">>,
            <<"T","e","c","h","n","i","c","a","l"," ","S","a","f","e","t","y"," ","B","C">> >>
    ELSE << <<"A","s","s","e","t"," ","P","l","a","t","e">>,
            <<"U","B","C"," ","T","a","g">>,
            <<"M","a","i","n"," ","A","s","s","e","t"," ","P","h","o","t","o">> >>

\* a failure-free submit has completed that found no file of its context
FreshSubmit(r) == CleanSubmit(r) /\ WithPrefix(r.pre.files, DerivedPrefix(r)) = {}

\* the lists the listing can return for the context of r
ListingOf(r) == ListExistingUploads(files, r.qr_code, r.building_code, r.asset_type)

\* lst has one entry per slot of S, in ascending order of sequence number
OnePerSlot(lst, S) ==
    /\ Len(lst) = Cardinality(S)
    /\ {ParseInt(lst[k].seq) : k \in DOMAIN lst} = S
    /\ \A k \in DOMAIN lst : IsDigit(lst[k].seq)
    /\ \A j, k \in DOMAIN lst : j < k => ParseInt(lst[j].seq) < ParseInt(lst[k].seq)

\* C11 as stated: after a failure-free submit with images in the slots S that
\* found no file of its context, the listing for the same context has |S|
\* entries in ascending order of sequence number, and the label of each entry
\* is the entry of the label table of the asset type for its sequence number.
C11_LabelsFromTable ==
    \A p \in Procs :
        LET r == req[p]
        IN  FreshSubmit(r) =>
               /\ ListingOf(r) # {}
               /\ \A lst \in ListingOf(r) :
                     /\ OnePerSlot(lst, SlotsOf(r))
                     /\ \A k \in DOMAIN lst :
                           LET i == ParseInt(lst[k].seq)
                           IN  /\ i + 1 \in DOMAIN LabelTable(r.asset_type)
                               /\ lst[k].label = LabelTable(r.asset_type)[i + 1]

\* C11, amended: after a failure-free submit with images in the slots S that
\* found no file of its context, the listing for the same context is one list
\* of |S| entries in ascending order of sequence number; the label of an entry
\* is the entry of the label table of the asset type for its sequence number
\* where the table has one, and "Photo n" for a sequence number n the table
\* lacks (slot 3 of an asset type other than "mechanical").
C11_ListingAfterSubmit ==
    \A p \in Procs :
        LET r == req[p]
        IN  FreshSubmit(r) =>
               /\ Cardinality(ListingOf(r)) = 1
               /\ \A lst \in ListingOf(r) :
                     /\ OnePerSlot(lst, SlotsOf(r))
                     /\ \A k \in DOMAIN lst :
                           LET i == ParseInt(lst[k].seq)
                               t == LabelTable(r.asset_type)
                           IN  lst[k].label =
                                  IF i + 1 \in DOMAIN t THEN t[i + 1]
                                  ELSE <<"P","h","o","t","o"," ">> \o lst[k].seq

\* a submit for an electrical asset with images in the slots 2 and 3 has
\* completed, and the listing shows them as "Main Asset Photo" and "Photo 3"
C11_Witness ==
    \E p \in Procs :
        LET r == req[p]
        IN  /\ FreshSubmit(r) /\ SlotsOf(r) = {2, 3} /\ r.asset_type = Electrical
            /\ \E lst \in ListingOf(r) :
                  /\ Len(lst) = 2
                  /\ lst[1].label = <<"M","a","i","n"," ","A","s","s","e","t"," ","P","h","o","t","o">>
                  /\ lst[2].label = <<"P","h","o","t","o"," ","3">>

Returned == san.pc = "return"
Forbidden == {"<", ">", ":", "\"", "/", "\\", "|", "?", "*", " ", "\t", "\n"}
Usable(s) == s # <<>> /\ \A i \in DOMAIN s : s[i] \notin Forbidden

\* C12 as stated: for every raw string, both values of prefer_digits and
\* every maxlen, the result of sanitize_component is not empty and contains
\* none of < > : " / \ | ? * and no white space.
C12_NeverEmptyNorIllegal == Returned => Usable(san.out)

\* C12, amended: for every raw string, both values of prefer_digits and every
\* maxlen of at least 1, the result of sanitize_component is not empty and
\* contains none of < > : " / \ | ? * and no white space; for every maxlen
\* the result contains none of those characters.
C12_UsableForPositiveMaxLen ==
    Returned =>
       /\ \A i \in DOMAIN san.out : san.out[i] \notin Forbidden
       /\ san.maxlen >= 1 => Usable(san.out)

\* a call has returned whose raw string held an illegal character and white
\* space and whose result was cut to maxlen
C12_Witness ==
    /\ Returned /\ san.maxlen >= 1 /\ Len(san.out) = san.maxlen
    /\ \E i, j \in DOMAIN san.raw : san.raw[i] \in IllegalChars /\ san.raw[j] \in Whitespace
    /\ san.out # Take(FallbackToken, san.maxlen)

\* the requests of p and q ran at the same time
Overlap(p, q) == q \in req[p].during \/ p \in req[q].during

\* C13 as stated: when two submits for one QR that is not in the QR mapping,
\* with different building codes, have run at the same time and both have
\* completed without a failure, the mapping has exactly one row for the QR,
\* and it carries the building code of the submit that wrote the mapping last.
C13_OneRowLastWriteWins ==
    \A p, q \in Procs :
        LET r == req[p]
            o == req[q]
        IN  /\ p # q /\ CleanSubmit(r) /\ CleanSubmit(o) /\ Overlap(p, q)
            /\ r.safe_qr = o.safe_qr /\ r.building_code # o.building_code
            /\ RowsOf(r.pre.qrRows, r.safe_qr) = {} /\ RowsOf(o.pre.qrRows, r.safe_qr) = {}
            /\ r.upsert_last
            =>
               /\ RowsOf(qrRows, r.safe_qr) = {<<r.safe_qr, r.building_code>>}
               /\ qrRows[<<r.safe_qr, r.building_code>>] = 1

\* C14: deleteOne removes the file before the record and never compensates.
\* When the removal of the file fails it ends with an error, and the file and
\* all records are still there; when the file is removed and the DB delete
\* fails it ends with an error, the file is gone and all records are still
\* there; it ends with ok only when the named file is not stored and there is
\* no record with the extension-stripped file name as key.  While the DB
\* delete is pending the file is already gone and no record has been touched.
C14_DeleteFileThenRecord ==
    \A p \in Procs :
        LET r == req[p]
            base == BaseOf(r.filename)
        IN  r.kind = "delete" =>
               /\ r.pc = "del_db" =>
                     /\ r.filename \notin files /\ assets = r.pre.assets
               /\ Done(r) /\ r.result = "cannot delete file" =>
                     /\ r.log = <<"validate", "del_file">>
                     /\ r.filename \in files
                     /\ files = r.pre.files /\ assets = r.pre.assets
               /\ Done(r) /\ r.result = "db error" =>
                     /\ r.log = <<"validate", "del_file", "del_db">>
                     /\ files = r.pre.files \ {r.filename}
                     /\ assets = r.pre.assets
               /\ Done(r) /\ r.result = "ok" =>
                     /\ r.log = <<"validate", "del_file", "del_db">>
                     /\ r.filename \notin files /\ base \notin assets
                     /\ files = r.pre.files \ {r.filename}
                     /\ assets = r.pre.assets \ {base}

\* a deleteOne of a stored file with a record has ended with the database
\* error: the file is gone and its record is still there
C14_Witness ==
    \E p \in Procs :
        LET r == req[p]
        IN  /\ r.kind = "delete" /\ Done(r) /\ r.result = "db error"
            /\ r.filename \in r.pre.files /\ r.filename \notin files
            /\ BaseOf(r.filename) \in assets

\* C15 as stated: when a submit with overwrite and a submit without, for the
\* same QR, have run at the same time without an I/O failure and both have
\* completed, every asset record whose key starts with the sanitized QR and a
\* space is the extension-less name of a stored file, and every stored file
\* whose name starts with it has its extension-less name as an asset record.
C15_ConcurrentOverwriteConsistent ==
    \A p, q \in Procs :
        LET r == req[p]
            o == req[q]
        IN  /\ p # q /\ CleanSubmit(r) /\ CleanSubmit(o) /\ Overlap(p, q)
            /\ r.safe_qr = o.safe_qr /\ r.overwrite = "1" /\ o.overwrite = "0"
            =>
               /\ \A k \in WithPrefix(assets, QrPrefix(r)) : \E f \in files : BaseOf(f) = k
               /\ \A f \in WithPrefix(files, QrPrefix(r)) : BaseOf(f) \in assets
=============================================================================
